---- MODULE Spec2Model ----
(***************************************************************************)
(* Birdhouse camera: the capture loop of capture.py (run) with the frame   *)
(* differencer (detect_motion), the capture controller (take_photo), the   *)
(* storage sync (upload_photo) and the retention pass                      *)
(* (cleanup_old_photos).                                                   *)
(*                                                                         *)
(* One loop iteration is the sequence of steps                             *)
(*   LoopTop -> TakePhoto -> DetectMotion -> Upload -> Cleanup -> Interval *)
(* driven by pc; an uncaught Python exception ends run() (pc = "crashed"). *)
(***************************************************************************)
EXTENDS Integers, Sequences, FiniteSets, TLC

\* ---- program constants (capture.py) ----
MOTION_THRESHOLD_PCT == 3
PIXEL_DIFF_THRESHOLD == 30
MOTION_BURST_COUNT == 15
MOTION_BURST_INTERVAL == 10

\* ---- bounds of the model ----
\* photos the camera may deliver in one behaviour (file names are 1..MaxPhotos)
MaxPhotos == 3
\* calendar dates: run() only tests two consecutive dates for inequality, so
\* two values stand for any sequence of dates
Dates == {0, 1}
\* the values the operator may put in settings.json
Widths == {2, 3}
Heights == {1}
CaptureIntervals == {120}
MaxLocalPhotos == {0, 1}
\* grey levels the camera may deliver at the first pixel; the rest is black
PixelLevels == {0, 31}
\* frames handed to detect_motion on its own: one row of TestWidths pixels with
\* the pixels TestBands[1]..TestBands[2] at a level of TestLevels, the rest 0
TestWidths == {100}
TestBands == { b \in (1..5) \X (0..5) : b[1] <= b[2] + 1 /\ (b[2] = 0 => b[1] = 1) }
TestLevels == {30, 31}

VARIABLES
    pc,                     \* position of run(): top, take_photo, detect_motion,
                            \* upload, cleanup, interval, sleep, crashed
    settings,               \* run: settings (load_settings() of this iteration)
    motion_burst_remaining, \* run: motion_burst_remaining
    motion_count_today,     \* run: motion_count_today
    current_day,            \* run: current_day
    is_burst,               \* run: is_burst (= motion_tag)
    filepath,               \* run: filepath; 0 is None, else the file's name
    motion,                 \* run: motion
    uploaded,               \* run: uploaded
    interval,               \* run: interval of this iteration's time.sleep; 0 until set
    prev_frame,             \* capture.py global _prev_frame; NoFrame is None
    prev_before,            \* history: _prev_frame as this iteration's detect_motion
                            \* found it; NoFrame before the call
    image,                  \* pixel content of the file at filepath
    local,                  \* .jpg files in PHOTOS_DIR
    remote,                 \* names of the photos copied to upload_path
    stats_file,             \* pi_stats.json at upload_path
    next_name,              \* the clock: name and mtime of the next photo
    calls,                  \* history: functions run() called in this iteration
    day_changed,            \* history: today != current_day held at the top
    burst_shots,            \* history: motion-tagged take_photo calls of the burst in
                            \* progress; 0 in an iteration that begins in NORMAL
    outcome,                \* history: what the filesystem did to upload_photo
    listing,                \* history: PHOTOS_DIR as cleanup_old_photos listed it
    cleaned,                \* history: files cleanup_old_photos removed
    queries,                \* gather_pi_stats on its own: what each metric query does
    snapshot,               \* gather_pi_stats on its own: the dict it returned
    reader_pc,              \* readers of pi_stats.json: where each one stands
    observed,               \* readers of pi_stats.json: what each one read last
    stats_before            \* history: pi_stats.json as upload_photo found it

vars == <<pc, settings, motion_burst_remaining, motion_count_today, current_day,
          is_burst, filepath, motion, uploaded, interval, prev_frame,
          prev_before, image, local, remote, stats_file, next_name, calls, day_changed,
          burst_shots, outcome, listing, cleaned, queries, snapshot,
          reader_pc, observed, stats_before>>

\* ---- values ----
NoFrame == [h |-> 0, w |-> 0, px |-> <<>>]

\* a grayscale frame of shape (h, w), row-major
CameraFrames(h, w) ==
    { [h |-> h, w |-> w, px |-> [i \in 1..(h * w) |-> IF i = 1 THEN v ELSE 0]] :
        v \in PixelLevels }

Settings ==
    [resolution_width : Widths, resolution_height : Heights,
     upload_enabled : BOOLEAN, max_local_photos : MaxLocalPhotos,
     capture_interval : CaptureIntervals]

\* the variable settings is unassigned until the first load_settings()
InitSettings ==
    [resolution_width |-> 2, resolution_height |-> 1, upload_enabled |-> TRUE,
     max_local_photos |-> 1, capture_interval |-> 120]

NoStats == [exists |-> FALSE, complete |-> FALSE, motion_events_today |-> 0]

\* pi_stats.json after open(stats_path, "w"): there, and empty or cut short
Truncated == [exists |-> TRUE, complete |-> FALSE, motion_events_today |-> 0]

\* pi_stats.json holding one whole snapshot
Snapshot(motion_today) ==
    [exists |-> TRUE, complete |-> TRUE, motion_events_today |-> motion_today]

\* the functions that read pi_stats.json on the storage server
Readers == {"_pi_stats", "get_pi_stats"}

Abs(x) == IF x < 0 THEN 0 - x ELSE x
Max2(a, b) == IF a > b THEN a ELSE b

\* ---- detect_motion ----
\* numpy broadcasting of two 2-D shapes
Broadcastable(a, b) ==
    /\ (a.h = b.h \/ a.h = 1 \/ b.h = 1)
    /\ (a.w = b.w \/ a.w = 1 \/ b.w = 1)

\* pixel (i, j) of frame f broadcast to a larger shape
PixelAt(f, i, j) ==
    f.px[((IF f.h = 1 THEN 1 ELSE i) - 1) * f.w + (IF f.w = 1 THEN 1 ELSE j)]

\* diff = np.abs(current - _prev_frame), as the set of positions over the threshold
ChangedPixels(cur, prev) ==
    { p \in (1..Max2(cur.h, prev.h)) \X (1..Max2(cur.w, prev.w)) :
        Abs(PixelAt(cur, p[1], p[2]) - PixelAt(prev, p[1], p[2])) > PIXEL_DIFF_THRESHOLD }

TotalPixels(cur, prev) == Max2(cur.h, prev.h) * Max2(cur.w, prev.w)

\* mutant: the current frame is not compared with the previous one
detect_motion_NoSubtract(cur, prev) ==
    IF prev = NoFrame
    THEN FALSE
    ELSE Cardinality({ i \in 1..Len(cur.px) : cur.px[i] > PIXEL_DIFF_THRESHOLD }) * 100
             > MOTION_THRESHOLD_PCT * TotalPixels(cur, prev)

\* mutant: motion already at MOTION_THRESHOLD_PCT percent
detect_motion_AtLeast(cur, prev) ==
    IF prev = NoFrame
    THEN FALSE
    ELSE Cardinality(ChangedPixels(cur, prev)) * 100
             >= MOTION_THRESHOLD_PCT * TotalPixels(cur, prev)

\* mutant: a missing previous frame is taken to be a black frame
detect_motion_BlackBaseline(cur, prev) ==
    LET base == IF prev = NoFrame
                THEN [h |-> cur.h, w |-> cur.w, px |-> [i \in 1..(cur.h * cur.w) |-> 0]]
                ELSE prev
    IN  Cardinality(ChangedPixels(cur, base)) * 100
            > MOTION_THRESHOLD_PCT * TotalPixels(cur, base)

\* pct_changed > MOTION_THRESHOLD_PCT, in integers
detect_motion(cur, prev) ==
    IF prev = NoFrame
    THEN FALSE
    ELSE Cardinality(ChangedPixels(cur, prev)) * 100
             > MOTION_THRESHOLD_PCT * TotalPixels(cur, prev)

\* np.array(Image.open(current_path)) for the frames of the detect_motion runs
TestFrames ==
    CameraFrames(1, 2) \cup
    { [h |-> 1, w |-> w,
       px |-> [i \in 1..w |-> IF b[1] <= i /\ i <= b[2] THEN v ELSE 0]] :
        w \in TestWidths, b \in TestBands, v \in TestLevels }

\* ---- gather_pi_stats ----
MetricQueries == {"thermal_zone0", "uptime", "df", "iwconfig"}

\* a query raises, returns what the parsing expects, or returns without raising
\* an output that lacks the expected data
QueryOutcomes == {"ok", "fail", "nodata"}

NoQueries == [q \in MetricQueries |-> "ok"]
NoSnapshot == [f \in {} |-> "N/A"]

\* stats = gather_pi_stats(motion_today): the dict as a function on its keys.
\* thermal_zone0 without a number makes int() raise; uptime output without
\* "up " is stored as it came; df output of fewer than two lines passes the try
\* block without an assignment; iwconfig output without "Signal level" reaches
\* the else of the for loop.
gather_pi_stats(q, motion_today) ==
    LET keys == {"timestamp", "motion_events_today", "cpu_temp", "uptime", "wifi_signal"}
                \cup (IF q["df"] = "nodata" THEN {} ELSE {"disk_free", "disk_pct"})
    IN  [k \in keys |->
            CASE k = "timestamp" -> "now"
              [] k = "motion_events_today" -> motion_today
              [] k = "cpu_temp" ->
                    IF q["thermal_zone0"] = "ok" THEN "value" ELSE "N/A"
              [] k = "uptime" ->
                    IF q["uptime"] = "fail" THEN "N/A"
                    ELSE IF q["uptime"] = "ok" THEN "value" ELSE "raw"
              [] k \in {"disk_free", "disk_pct"} ->
                    IF q["df"] = "ok" THEN "value" ELSE "N/A"
              [] k = "wifi_signal" ->
                    IF q["iwconfig"] = "ok" THEN "value" ELSE "N/A"]

\* ---- run: scheduler arithmetic ----
\* mutant: the counter is never reset
ResetCounter_Never(today, day, count) == count

\* mutant: the counter is reset in every iteration
ResetCounter_Always(today, day, count) == 0

\* if today != current_day: motion_count_today = 0
ResetCounter(today, day, count) == IF today # day THEN 0 ELSE count

\* mutant: the last capture of a burst is not counted as one
IsBurst_OffByOne(remaining) == remaining > 1

\* is_burst = motion_burst_remaining > 0
IsBurst(remaining) == remaining > 0

\* mutant: motion restarts the burst while one is running
StartsBurst_AnyMotion(m, burst) == m

\* if motion and not is_burst
StartsBurst(m, burst) == m /\ ~burst

\* mutant: the result of take_photo is not tested
AfterTakePhoto_NoCheck(fp) == "detect_motion"

\* if filepath: ... (a failed capture skips motion detection, upload and cleanup)
AfterTakePhoto(fp) == IF fp # 0 THEN "detect_motion" ELSE "interval"

\* if settings["upload_enabled"]: ...
AfterDetectMotion(upload_enabled) == IF upload_enabled THEN "upload" ELSE "cleanup"

\* mutant: the burst cadence starts one iteration after the burst was started
AdaptiveInterval_NextCycle(remaining, capture_interval) ==
    IF remaining > 0 /\ remaining < MOTION_BURST_COUNT
    THEN [remaining |-> remaining - 1, interval |-> MOTION_BURST_INTERVAL]
    ELSE [remaining |-> IF remaining > 0 THEN remaining - 1 ELSE remaining,
          interval |-> capture_interval]

\* the "Adaptive interval" block: new remaining count and the sleep interval
AdaptiveInterval(remaining, capture_interval) ==
    IF remaining > 0
    THEN [remaining |-> remaining - 1, interval |-> MOTION_BURST_INTERVAL]
    ELSE [remaining |-> remaining, interval |-> capture_interval]

\* ---- cleanup_old_photos ----
\* mutant: sorted newest first
SortedByMtime_NewestFirst(files) ==
    { s \in [1..Cardinality(files) -> files] :
        /\ \A i, j \in 1..Cardinality(files) : i # j => s[i] # s[j]
        /\ \A i, j \in 1..Cardinality(files) : i < j => s[i].mtime >= s[j].mtime }

\* sorted(listing, key=os.path.getmtime): every order sorted() can return
SortedByMtime(files) ==
    { s \in [1..Cardinality(files) -> files] :
        /\ \A i, j \in 1..Cardinality(files) : i # j => s[i] # s[j]
        /\ \A i, j \in 1..Cardinality(files) : i < j => s[i].mtime <= s[j].mtime }

\* the files the while loop pops, in order
RECURSIVE Popped(_, _)
Popped(photos, max_keep) ==
    IF Len(photos) > max_keep
    THEN <<Head(photos)>> \o Popped(Tail(photos), max_keep)
    ELSE <<>>

Range(s) == { s[i] : i \in 1..Len(s) }

\* ---- upload_photo ----
\* what the filesystem does to one call of upload_photo
UploadOutcomes == {"no_dir", "copy_error", "open_error", "write_error", "ok"}

\* mutant: the destination directory is not tested and the copy creates it
upload_photo_NoDirCheck(o, file, dest, stats, motion_today) ==
    IF o \in {"no_dir", "ok"}
    THEN [ok |-> TRUE, remote |-> dest \cup {file},
          stats_file |-> [exists |-> TRUE, complete |-> TRUE,
                          motion_events_today |-> motion_today]]
    ELSE [ok |-> FALSE, remote |-> dest, stats_file |-> stats]

\* mutant: a failed copy is reported as success
upload_photo_IgnoreCopyError(o, file, dest, stats, motion_today) ==
    IF o \in {"no_dir", "copy_error"}
    THEN [ok |-> (o = "copy_error"), remote |-> dest, stats_file |-> stats]
    ELSE [ok |-> (o = "ok"), remote |-> dest \cup {file},
          stats_file |-> IF o = "open_error" THEN stats
                         ELSE [exists |-> TRUE, complete |-> (o = "ok"),
                               motion_events_today |->
                                   IF o = "ok" THEN motion_today ELSE 0]]

\* mutant: a successful upload also sends the photo before this one again
upload_photo_RetryPrevious(o, file, dest, stats, motion_today) ==
    IF o = "ok"
    THEN [ok |-> TRUE, remote |-> dest \cup {file, file - 1},
          stats_file |-> [exists |-> TRUE, complete |-> TRUE,
                          motion_events_today |-> motion_today]]
    ELSE [ok |-> FALSE,
          remote |-> IF o \in {"open_error", "write_error"}
                     THEN dest \cup {file} ELSE dest,
          stats_file |-> IF o = "write_error"
                         THEN [exists |-> TRUE, complete |-> FALSE,
                               motion_events_today |-> 0]
                         ELSE stats]

\* upload_photo(filepath, upload_path, motion_today) under outcome o: the return
\* value, the photos at upload_path and pi_stats.json afterwards
upload_photo(o, file, dest, stats, motion_today) ==
    CASE o = "no_dir" ->
            \* not os.path.isdir(upload_path): return False
            [ok |-> FALSE, remote |-> dest, stats_file |-> stats]
      [] o = "copy_error" ->
            \* shutil.copy2 raised OSError
            [ok |-> FALSE, remote |-> dest, stats_file |-> stats]
      [] o = "open_error" ->
            \* copied; open(stats_path, "w") raised OSError
            [ok |-> FALSE, remote |-> dest \cup {file}, stats_file |-> stats]
      [] o = "write_error" ->
            \* copied; the file was truncated and json.dump raised OSError
            [ok |-> FALSE, remote |-> dest \cup {file},
             stats_file |-> [exists |-> TRUE, complete |-> FALSE,
                             motion_events_today |-> 0]]
      [] o = "ok" ->
            [ok |-> TRUE, remote |-> dest \cup {file},
             stats_file |-> [exists |-> TRUE, complete |-> TRUE,
                             motion_events_today |-> motion_today]]

\* the file of PHOTOS_DIR with the given name
FileNamed(files, n) == { f \in files : f.name = n }

\* ---- state after the three assignments that precede the loop ----
Init ==
    /\ pc = "top"
    /\ settings = InitSettings
    /\ motion_burst_remaining = 0
    /\ motion_count_today = 0
    /\ current_day = 0
    /\ is_burst = FALSE
    /\ filepath = 0
    /\ motion = FALSE
    /\ uploaded = FALSE
    /\ interval = 0
    /\ prev_frame = NoFrame
    /\ prev_before = NoFrame
    /\ image = NoFrame
    /\ local = {}
    /\ remote = {}
    /\ stats_file = NoStats
    /\ next_name = 1
    /\ calls = <<>>
    /\ day_changed = FALSE
    /\ burst_shots = 0
    /\ outcome = "none"
    /\ listing = {}
    /\ cleaned = {}
    /\ queries = NoQueries
    /\ snapshot = NoSnapshot
    /\ reader_pc = [r \in Readers |-> "idle"]
    /\ observed = [r \in Readers |-> NoStats]
    /\ stats_before = NoStats

\* top of the while loop: load_settings, the daily reset, is_burst
LoopTop ==
    /\ pc = "top"
    /\ UNCHANGED <<queries, snapshot, reader_pc, observed, stats_before>>
    /\ \E s \in Settings, today \in Dates :
        /\ settings' = s
        /\ motion_count_today' = ResetCounter(today, current_day, motion_count_today)
        /\ day_changed' = (today # current_day)
        /\ current_day' = today
    /\ is_burst' = IsBurst(motion_burst_remaining)
    /\ pc' = "take_photo"
    /\ UNCHANGED <<motion_burst_remaining, filepath, motion, uploaded, interval,
                   prev_frame, prev_before, image, local, remote, stats_file, next_name, calls,
                   burst_shots, outcome, listing, cleaned>>

\* filepath = take_photo(width, height, quality, motion_tag=motion_tag)
TakePhoto ==
    /\ pc = "take_photo"
    /\ UNCHANGED <<queries, snapshot, reader_pc, observed, stats_before>>
    /\ calls' = Append(calls, "take_photo")
    /\ burst_shots' = IF is_burst THEN burst_shots + 1 ELSE burst_shots
    /\ \/ \* libcamera-still succeeded: the stamped file is in PHOTOS_DIR
          /\ next_name <= MaxPhotos
          /\ \E f \in CameraFrames(settings.resolution_height, settings.resolution_width) :
                image' = f
          /\ local' = local \cup {[name |-> next_name, mtime |-> next_name,
                                   motion |-> is_burst]}
          /\ filepath' = next_name
          /\ next_name' = next_name + 1
       \/ \* CalledProcessError or TimeoutExpired: return None
          /\ filepath' = 0
          /\ UNCHANGED <<image, local, next_name>>
    /\ pc' = AfterTakePhoto(filepath')
    /\ UNCHANGED <<settings, motion_burst_remaining, motion_count_today, current_day,
                   is_burst, motion, uploaded, interval, prev_frame, prev_before,
                   remote, stats_file, day_changed, outcome, listing, cleaned>>

\* motion = detect_motion(filepath) and the burst start
DetectMotion ==
    /\ pc = "detect_motion"
    /\ UNCHANGED <<queries, snapshot, reader_pc, observed, stats_before>>
    /\ calls' = Append(calls, "detect_motion")
    /\ prev_before' = prev_frame
    /\ \/ \* shapes that numpy cannot broadcast: ValueError leaves run()
          /\ prev_frame # NoFrame
          /\ ~Broadcastable(image, prev_frame)
          /\ pc' = "crashed"
          /\ UNCHANGED <<motion, prev_frame, motion_count_today,
                         motion_burst_remaining, burst_shots>>
       \/ /\ prev_frame = NoFrame \/ Broadcastable(image, prev_frame)
          /\ motion' = detect_motion(image, prev_frame)
          /\ prev_frame' = image
          /\ IF StartsBurst(motion', is_burst)
             THEN /\ motion_count_today' = motion_count_today + 1
                  /\ motion_burst_remaining' = MOTION_BURST_COUNT
                  /\ burst_shots' = 0
             ELSE UNCHANGED <<motion_count_today, motion_burst_remaining, burst_shots>>
          /\ pc' = AfterDetectMotion(settings.upload_enabled)
    /\ UNCHANGED <<settings, current_day, is_burst, filepath, uploaded, interval,
                   image, local, remote, stats_file, next_name, day_changed,
                   outcome, listing, cleaned>>

\* if settings["upload_enabled"]: uploaded = upload_photo(...); os.remove(filepath)
Upload ==
    /\ pc = "upload"
    /\ UNCHANGED <<queries, snapshot, reader_pc, observed, stats_before>>
    /\ calls' = Append(calls, "upload_photo")
    /\ \E o \in UploadOutcomes :
        /\ outcome' = o
        /\ LET r == upload_photo(o, filepath, remote, stats_file, motion_count_today) IN
           /\ uploaded' = r.ok
           /\ remote' = r.remote
           /\ stats_file' = r.stats_file
           /\ IF r.ok
              THEN \/ \* os.remove(filepath)
                      /\ local' = local \ FileNamed(local, filepath)
                      /\ pc' = "cleanup"
                   \/ \* os.remove(filepath) raised OSError: nothing catches it
                      /\ local' = local
                      /\ pc' = "crashed"
              ELSE /\ local' = local
                   /\ pc' = "cleanup"
    /\ UNCHANGED <<settings, motion_burst_remaining, motion_count_today, current_day,
                   is_burst, filepath, motion, interval, prev_frame, prev_before,
                   image, next_name, day_changed, burst_shots, listing, cleaned>>

\* cleanup_old_photos(settings["max_local_photos"])
Cleanup ==
    /\ pc = "cleanup"
    /\ UNCHANGED <<queries, snapshot, reader_pc, observed, stats_before>>
    /\ calls' = Append(calls, "cleanup_old_photos")
    /\ listing' = local
    /\ \E photos \in SortedByMtime(local) :
        LET popped == Popped(photos, settings.max_local_photos) IN
        \/ \* every os.remove succeeded
           /\ cleaned' = Range(popped)
           /\ local' = local \ Range(popped)
           /\ pc' = "interval"
        \/ \* os.remove raised OSError at the k-th pop: nothing catches it
           \E k \in 1..Len(popped) :
              /\ cleaned' = Range(SubSeq(popped, 1, k - 1))
              /\ local' = local \ Range(SubSeq(popped, 1, k - 1))
              /\ pc' = "crashed"
    /\ UNCHANGED <<settings, motion_burst_remaining, motion_count_today, current_day,
                   is_burst, filepath, motion, uploaded, interval, prev_frame,
                   prev_before, image, remote, stats_file, next_name, day_changed,
                   burst_shots, outcome>>

\* the "Adaptive interval" block and time.sleep(interval)
Interval ==
    /\ pc = "interval"
    /\ UNCHANGED <<queries, snapshot, reader_pc, observed, stats_before>>
    /\ LET a == AdaptiveInterval(motion_burst_remaining, settings.capture_interval) IN
        /\ motion_burst_remaining' = a.remaining
        /\ interval' = a.interval
    /\ pc' = "sleep"
    /\ UNCHANGED <<settings, motion_count_today, current_day, is_burst, filepath,
                   motion, uploaded, prev_frame, prev_before, image, local, remote,
                   stats_file, next_name, calls, day_changed, burst_shots, outcome,
                   listing, cleaned>>

\* time.sleep(interval) returns and the while loop starts over: what the
\* iteration left in its locals is dead, the next iteration assigns them anew
Sleep ==
    /\ pc = "sleep"
    /\ UNCHANGED <<queries, snapshot, reader_pc, observed, stats_before>>
    /\ pc' = "top"
    /\ settings' = InitSettings
    /\ is_burst' = FALSE
    /\ filepath' = 0
    /\ motion' = FALSE
    /\ uploaded' = FALSE
    /\ interval' = 0
    /\ image' = NoFrame
    /\ prev_before' = NoFrame
    /\ calls' = <<>>
    /\ day_changed' = FALSE
    /\ burst_shots' = IF motion_burst_remaining > 0 THEN burst_shots ELSE 0
    /\ outcome' = "none"
    /\ listing' = {}
    /\ cleaned' = {}
    /\ UNCHANGED <<motion_burst_remaining, motion_count_today, current_day,
                   prev_frame, local, remote, stats_file, next_name>>

Next ==
    LoopTop \/ TakePhoto \/ DetectMotion \/ Upload \/ Cleanup \/ Interval \/ Sleep

Spec == Init /\ [][Next]_vars

\* ---- properties ----
\* detect_motion on its own: run() is about to call it on the photo it has just
\* taken, with any frame retained from an earlier capture
DiffInit ==
    /\ pc = "detect_motion"
    /\ prev_frame \in TestFrames
    /\ image \in TestFrames
    /\ settings = [InitSettings EXCEPT !.resolution_width = image.w]
    /\ motion_burst_remaining = 0
    /\ motion_count_today = 0
    /\ current_day = 0
    /\ is_burst = FALSE
    /\ filepath = 2
    /\ motion = FALSE
    /\ uploaded = FALSE
    /\ interval = 0
    /\ prev_before = NoFrame
    /\ local = {[name |-> 2, mtime |-> 2, motion |-> FALSE]}
    /\ remote = {}
    /\ stats_file = NoStats
    /\ next_name = 3
    /\ calls = <<"take_photo">>
    /\ day_changed = FALSE
    /\ burst_shots = 0
    /\ outcome = "none"
    /\ listing = {}
    /\ cleaned = {}
    /\ queries = NoQueries
    /\ snapshot = NoSnapshot
    /\ reader_pc = [r \in Readers |-> "idle"]
    /\ observed = [r \in Readers |-> NoStats]
    /\ stats_before = NoStats

DiffNext == DetectMotion

SpecDiff == DiffInit /\ [][DiffNext]_vars

\* gather_pi_stats on its own, as upload_photo calls it after the copy
StatsInit ==
    /\ pc = "gather_pi_stats"
    /\ queries \in [MetricQueries -> QueryOutcomes]
    /\ snapshot = NoSnapshot
    /\ reader_pc = [r \in Readers |-> "idle"]
    /\ observed = [r \in Readers |-> NoStats]
    /\ stats_before = NoStats
    /\ motion_count_today \in 0..MaxPhotos
    /\ settings = InitSettings
    /\ motion_burst_remaining = 0
    /\ current_day = 0
    /\ is_burst = FALSE
    /\ filepath = 1
    /\ motion = FALSE
    /\ uploaded = FALSE
    /\ interval = 0
    /\ prev_frame = NoFrame
    /\ prev_before = NoFrame
    /\ image = NoFrame
    /\ local = {[name |-> 1, mtime |-> 1, motion |-> FALSE]}
    /\ remote = {1}
    /\ stats_file = NoStats
    /\ next_name = 2
    /\ calls = <<"take_photo", "detect_motion">>
    /\ day_changed = FALSE
    /\ burst_shots = 0
    /\ outcome = "none"
    /\ listing = {}
    /\ cleaned = {}

\* stats = gather_pi_stats(motion_today)
GatherPiStats ==
    /\ pc = "gather_pi_stats"
    /\ snapshot' = gather_pi_stats(queries, motion_count_today)
    /\ pc' = "gathered"
    /\ UNCHANGED <<settings, motion_burst_remaining, motion_count_today, current_day,
                   is_burst, filepath, motion, uploaded, interval, prev_frame,
                   prev_before, image, local, remote, stats_file, next_name, calls,
                   day_changed, burst_shots, outcome, listing, cleaned, queries,
                   reader_pc, observed, stats_before>>

StatsNext == GatherPiStats

SpecStats == StatsInit /\ [][StatsNext]_vars

\* ---- upload_photo's telemetry write next to the readers of the file ----
\* upload_photo has copied the photo and gathered the stats; the file is absent
\* or holds the snapshot of an earlier upload; the readers are between calls
ReadersInit ==
    /\ pc = "open_stats"
    /\ stats_file \in {NoStats} \cup { Snapshot(m) : m \in 0..MaxPhotos }
    /\ stats_before = stats_file
    /\ motion_count_today \in 0..MaxPhotos
    /\ reader_pc = [r \in Readers |-> "idle"]
    /\ observed = [r \in Readers |-> NoStats]
    /\ queries = NoQueries
    /\ snapshot = gather_pi_stats(queries, motion_count_today)
    /\ settings = InitSettings
    /\ motion_burst_remaining = 0
    /\ current_day = 0
    /\ is_burst = FALSE
    /\ filepath = 1
    /\ motion = FALSE
    /\ uploaded = FALSE
    /\ interval = 0
    /\ prev_frame = NoFrame
    /\ prev_before = NoFrame
    /\ image = NoFrame
    /\ local = {[name |-> 1, mtime |-> 1, motion |-> FALSE]}
    /\ remote = {1}
    /\ next_name = 2
    /\ calls = <<"take_photo", "detect_motion", "upload_photo">>
    /\ day_changed = FALSE
    /\ burst_shots = 0
    /\ outcome = "none"
    /\ listing = {}
    /\ cleaned = {}

\* what the writer steps and the reader steps leave alone
WriterFrame ==
    UNCHANGED <<settings, motion_burst_remaining, motion_count_today, current_day,
                is_burst, filepath, motion, interval, prev_frame, prev_before,
                image, local, remote, next_name, calls, day_changed, burst_shots,
                listing, cleaned, queries, snapshot, stats_before>>

\* open(stats_path, "w"): creates or truncates the file, or raises OSError
OpenStats ==
    /\ pc = "open_stats"
    /\ \/ /\ stats_file' = Truncated
          /\ pc' = "dump_stats"
          /\ UNCHANGED <<uploaded, outcome>>
       \/ /\ outcome' = "open_error"
          /\ uploaded' = FALSE
          /\ pc' = "returned"
          /\ UNCHANGED stats_file
    /\ WriterFrame
    /\ UNCHANGED <<reader_pc, observed>>

\* json.dump(stats, f, indent=2) and the close at the end of the with block:
\* the text reaches the file, or OSError leaves it empty or cut short
DumpStats ==
    /\ pc = "dump_stats"
    /\ \/ /\ stats_file' = Snapshot(snapshot["motion_events_today"])
          /\ outcome' = "ok"
          /\ uploaded' = TRUE
       \/ /\ outcome' = "write_error"
          /\ uploaded' = FALSE
          /\ UNCHANGED stats_file
    /\ pc' = "returned"
    /\ WriterFrame
    /\ UNCHANGED <<reader_pc, observed>>

\* if os.path.exists(STATS_FILE): ... else return {}
ReaderExists(r) ==
    /\ reader_pc[r] = "idle"
    /\ IF stats_file.exists
       THEN /\ reader_pc' = [reader_pc EXCEPT ![r] = "open"]
            /\ UNCHANGED observed
       ELSE /\ observed' = [observed EXCEPT ![r] = NoStats]
            /\ UNCHANGED reader_pc
    /\ WriterFrame
    /\ UNCHANGED <<pc, stats_file, uploaded, outcome>>

\* with open(STATS_FILE) as f: return json.load(f)
\* the reader gets what the file holds at this moment; json.load raises on a
\* text that is not one whole JSON value
ReaderLoad(r) ==
    /\ reader_pc[r] = "open"
    /\ observed' = [observed EXCEPT ![r] = stats_file]
    /\ reader_pc' = [reader_pc EXCEPT ![r] = "idle"]
    /\ WriterFrame
    /\ UNCHANGED <<pc, stats_file, uploaded, outcome>>

ReadersNext ==
    \/ OpenStats
    \/ DumpStats
    \/ \E r \in Readers : ReaderExists(r)
    \/ \E r \in Readers : ReaderLoad(r)

SpecReaders == ReadersInit /\ [][ReadersNext]_vars

InChain == pc \in {"take_photo", "detect_motion", "upload", "cleanup", "interval"}
CleanupCalled == \E i \in 1..Len(calls) : calls[i] = "cleanup_old_photos"
BurstStartedNow == motion /\ ~is_burst

\* C1: after motion in NORMAL, exactly MOTION_BURST_COUNT following iterations are
\* motion-tagged and sleep MOTION_BURST_INTERVAL; the iteration after them is
\* untagged and, when it starts no new burst, sleeps capture_interval.
C1_ExactlyCountTagged ==
    /\ (pc = "sleep" /\ is_burst /\ motion_burst_remaining = 0)
          => (burst_shots = MOTION_BURST_COUNT /\ interval = MOTION_BURST_INTERVAL)
    /\ (pc = "sleep" /\ ~is_burst /\ ~motion)
          => interval = settings.capture_interval

C3_BurstRunsDown ==
    [][ (is_burst /\ InChain)
          => /\ motion_count_today' = motion_count_today
             /\ motion_burst_remaining' =
                    IF pc = "interval" THEN motion_burst_remaining - 1
                                       ELSE motion_burst_remaining ]_vars

C3_Witness == pc = "sleep" /\ is_burst /\ motion /\ motion_burst_remaining > 0

\* C4: at the sleep of every iteration the local photo count is at most the
\* max_local_photos read in that iteration.
C4_CountWithinMax ==
    pc = "sleep" => Cardinality(local) <= settings.max_local_photos

\* C5: cleanup_old_photos removes only files none of which is newer than a file
\* it leaves; when it returns it has removed exactly count - max_keep files, and
\* none when count <= max_keep.
C5_OldestRemoved ==
    CleanupCalled =>
        /\ cleaned \subseteq listing
        /\ local = listing \ cleaned
        /\ \A r \in cleaned : \A k \in local : r.mtime <= k.mtime
        /\ pc # "crashed" =>
              Cardinality(cleaned) =
                  Max2(0, Cardinality(listing) - settings.max_local_photos)

C5_Witness ==
    pc = "sleep" /\ Cardinality(cleaned) = 1 /\ local # {}

\* C6: an iteration whose date differs from the previous one has
\* motion_count_today = 0 when take_photo is called and 1 or 0 at its sleep
\* according to whether it started a burst; an iteration on the same date does
\* not reset the counter.
C6_ResetOnceBeforeCapture ==
    /\ [](day_changed /\ pc = "take_photo" => motion_count_today = 0)
    /\ [](day_changed /\ pc = "sleep" =>
              motion_count_today = IF BurstStartedNow THEN 1 ELSE 0)
    /\ [][ (pc = "top" /\ current_day' = current_day)
              => motion_count_today' = motion_count_today ]_vars

C6_Witness == pc = "sleep" /\ day_changed /\ motion_count_today = 1

\* C7: in an iteration on the same date as the previous one motion_count_today
\* never decreases; it grows by exactly 1, and only in the step where
\* detect_motion reports motion in NORMAL.
C7_CounterMonotone ==
    [][ (pc = "top" => current_day' = current_day)
          => /\ motion_count_today' \in {motion_count_today, motion_count_today + 1}
             /\ motion_count_today' = motion_count_today + 1
                   => (pc = "detect_motion" /\ motion' /\ ~is_burst) ]_vars

C7_Witness ==
    pc = "sleep" /\ ~day_changed /\ BurstStartedNow /\ motion_count_today = 2

\* C8: an error while deleting a local photo (after an upload, or in
\* cleanup_old_photos) does not end the loop.
C8_DeleteErrorSurvived ==
    [][ (pc \in {"upload", "cleanup"}) => (pc' # "crashed") ]_vars

\* C9: a failed camera invocation makes take_photo the only call of the
\* iteration, leaves the previous frame, the counter and the files alone and
\* leads to the sleep.
C9_FailedCaptureSkips ==
    /\ [](pc \in {"interval", "sleep"} /\ filepath = 0 => calls = <<"take_photo">>)
    /\ [][ (pc \in {"take_photo", "interval"} /\ filepath' = 0)
              => /\ prev_frame' = prev_frame
                 /\ motion_count_today' = motion_count_today
                 /\ local' = local /\ remote' = remote /\ stats_file' = stats_file
                 /\ pc' = IF pc = "take_photo" THEN "interval" ELSE "sleep" ]_vars

C9_Witness ==
    pc = "sleep" /\ filepath = 0 /\ prev_frame # NoFrame /\ motion_count_today > 0

\* C10: when the upload destination is no directory, upload_photo returns False
\* and copies and writes nothing, the captured file is still local after the
\* upload step, and cleanup_old_photos runs in that iteration.
C10_MissingDestination ==
    /\ [](outcome = "no_dir" =>
              /\ ~uploaded
              /\ pc = "cleanup" => FileNamed(local, filepath) # {}
              /\ pc # "cleanup" => CleanupCalled)
    /\ [][ (pc = "upload" /\ outcome' = "no_dir")
              => (remote' = remote /\ stats_file' = stats_file /\ local' = local) ]_vars

C10_Witness ==
    pc = "sleep" /\ outcome = "no_dir" /\ CleanupCalled /\ stats_file.exists

DetectCalled == \E i \in 1..Len(calls) : calls[i] = "detect_motion"

\* C11: a detect_motion call that finds no previous frame reports no motion
\* whatever the image holds, stores the image as the previous frame, and the
\* iteration starts no burst and leaves motion_count_today alone.
C11_FirstFrameSeeds ==
    [][ (pc = "detect_motion" /\ prev_frame = NoFrame)
          => /\ ~motion'
             /\ prev_frame' = image
             /\ motion_count_today' = motion_count_today
             /\ motion_burst_remaining' = motion_burst_remaining
             /\ pc' # "crashed" ]_vars

C11_Witness ==
    /\ pc = "sleep" /\ DetectCalled /\ prev_before = NoFrame
    /\ image.px[1] > PIXEL_DIFF_THRESHOLD /\ prev_frame = image /\ ~motion

\* C12: with the previous-frame buffer holding A, detect_motion on a frame equal
\* to A finds zero changed pixels, reports no motion and leaves A in the buffer.
C12_SameFrameNoMotion ==
    [][ (pc = "detect_motion" /\ prev_frame # NoFrame /\ image = prev_frame)
          => /\ ChangedPixels(image, prev_frame) = {}
             /\ ~motion'
             /\ prev_frame' = prev_frame
             /\ pc' # "crashed" ]_vars

C12_Witness ==
    /\ pc # "detect_motion" /\ DetectCalled
    /\ prev_before = image /\ prev_frame = image
    /\ Cardinality({ i \in 1..Len(image.px) : image.px[i] > PIXEL_DIFF_THRESHOLD }) * 100
           > MOTION_THRESHOLD_PCT * Len(image.px)
    /\ ~motion

\* the positions where two frames of one shape differ by more than the threshold
Altered(cur, prev) ==
    { i \in 1..Len(cur.px) : Abs(cur.px[i] - prev.px[i]) > PIXEL_DIFF_THRESHOLD }

SameShape(f, g) == f.h = g.h /\ f.w = g.w

\* C13: for a fixed previous frame the result of detect_motion is monotone in
\* the set of altered pixels of same-sized frames, and it is motion exactly when
\* the number of altered pixels is more than MOTION_THRESHOLD_PCT percent of all.
C13_MonotoneAndExact ==
    (pc # "detect_motion" /\ pc # "crashed" /\ DetectCalled /\ SameShape(image, prev_before))
        => /\ motion <=> (Cardinality(Altered(image, prev_before)) * 100
                              > MOTION_THRESHOLD_PCT * Len(image.px))
           /\ \A f \in TestFrames :
                 (/\ SameShape(f, image)
                  /\ Altered(image, prev_before) \subseteq Altered(f, prev_before)
                  /\ motion)
                    => detect_motion(f, prev_before)
           /\ \A f \in TestFrames :
                 (/\ SameShape(f, image)
                  /\ Altered(f, prev_before) \subseteq Altered(image, prev_before)
                  /\ detect_motion(f, prev_before))
                    => motion

C13_Witness ==
    /\ pc # "detect_motion" /\ DetectCalled /\ SameShape(image, prev_before)
    /\ Cardinality(Altered(image, prev_before)) * 100 = MOTION_THRESHOLD_PCT * Len(image.px)
    /\ ~motion
    /\ \E f \in TestFrames :
          /\ SameShape(f, image)
          /\ Altered(image, prev_before) \subseteq Altered(f, prev_before)
          /\ detect_motion(f, prev_before)

\* the local photos this iteration found at its start, seen from its sleep:
\* what is left or was pruned, without the photo the iteration captured itself
PreExisting == { f \in local \cup cleaned : f.name # filepath }

\* C14: an iteration that started with max_local_photos + 1 local photos ends
\* with exactly one of them removed, the oldest, and with exactly
\* max_local_photos local photos.
C14_OneOldestRemoved ==
    (pc = "sleep" /\ Cardinality(PreExisting) = settings.max_local_photos + 1)
        => /\ Cardinality(PreExisting \cap cleaned) = 1
           /\ \A f \in PreExisting \cap cleaned : \A g \in PreExisting : f.mtime <= g.mtime
           /\ Cardinality(local) = settings.max_local_photos

SnapshotFields ==
    {"timestamp", "motion_events_today", "cpu_temp", "uptime", "disk_free",
     "disk_pct", "wifi_signal"}

\* the metric query that feeds a field
QueryOf(k) ==
    CASE k = "cpu_temp" -> "thermal_zone0"
      [] k = "uptime" -> "uptime"
      [] k \in {"disk_free", "disk_pct"} -> "df"
      [] k = "wifi_signal" -> "iwconfig"

\* C15: the dict gather_pi_stats returns has all seven fields whatever the four
\* queries do, motion_events_today is the count passed in, a field whose query
\* raised holds "N/A", a field whose query returned no data holds no metric
\* value, and a field whose query succeeded holds its value whatever the other
\* queries did.
C15_SevenFieldsAlways ==
    pc = "gathered"
        => /\ DOMAIN snapshot = SnapshotFields
           /\ snapshot["motion_events_today"] = motion_count_today
           /\ \A k \in SnapshotFields \ {"timestamp", "motion_events_today"} :
                 /\ queries[QueryOf(k)] = "ok" => snapshot[k] = "value"
                 /\ queries[QueryOf(k)] = "fail" => snapshot[k] = "N/A"
                 /\ queries[QueryOf(k)] = "nodata" => snapshot[k] # "value"

\* C16: pi_stats.json comes into existence only in an upload_photo call that
\* returns True, and after such a call it holds the one snapshot of that call,
\* with the motion_count_today of that moment.
C16_TelemetryOnlyOnSuccess ==
    [][ /\ (~stats_file.exists /\ stats_file'.exists) => uploaded'
        /\ (pc = "upload" /\ uploaded')
              => stats_file' = [exists |-> TRUE, complete |-> TRUE,
                                motion_events_today |-> motion_count_today] ]_vars

\* C17: a local photo disappears only in cleanup_old_photos or in an upload
\* step that returned True and left its copy at the destination; copies at the
\* destination stay; an upload step that did not complete removes nothing.
C17_NoLossByUpload ==
    [][ /\ remote \subseteq remote'
        /\ \A f \in local \ local' :
              \/ pc = "cleanup"
              \/ pc = "upload" /\ uploaded' /\ f.name = filepath /\ f.name \in remote'
        /\ (pc = "upload" /\ outcome' # "ok") => local' = local ]_vars

C17_Witness ==
    pc = "cleanup" /\ uploaded /\ FileNamed(local, filepath) = {} /\ filepath \in remote

\* C18: is_burst is motion_burst_remaining > 0 as the iteration found it, the
\* photo of the iteration is tagged motion exactly when is_burst, so the photo
\* that starts a burst is tagged bird, and no file's tag changes later.
C18_PrefixIsBurstAtTop ==
    /\ [](pc = "take_photo" => (is_burst <=> motion_burst_remaining > 0))
    /\ [](\A f \in FileNamed(local, filepath) :
              /\ f.motion <=> is_burst
              /\ BurstStartedNow => ~f.motion)
    /\ [][ \A f \in local : \A g \in local' :
              f.name = g.name => f.motion = g.motion ]_vars

C18_Witness ==
    pc = "sleep" /\ is_burst /\ \E f \in FileNamed(local, filepath) : f.motion

\* C19: an iteration whose resolution differs from that of the retained
\* previous frame does not end the loop.
C19_ResizeSurvived ==
    [][ (/\ pc = "detect_motion"
         /\ prev_frame # NoFrame
         /\ \/ prev_frame.w # settings.resolution_width
            \/ prev_frame.h # settings.resolution_height)
          => pc' # "crashed" ]_vars

\* C20: the only file ever copied to the destination is the one the running
\* iteration captured, in its upload step; an older local photo is removed by
\* cleanup_old_photos alone.
C20_OneUploadAttempt ==
    [][ /\ (remote' # remote)
              => /\ pc = "upload"
                 /\ filepath = next_name - 1
                 /\ remote' \ remote = {filepath}
        /\ \A f \in local \ local' : f.name # filepath => pc = "cleanup" ]_vars

C20_Witness ==
    /\ pc = "cleanup" /\ uploaded
    /\ \E f \in local : f.name # filepath /\ f.name \notin remote

\* C21: whatever the interleaving with upload_photo's rewrite of pi_stats.json,
\* a reader gets no file, the whole snapshot that was there before, or the
\* whole new snapshot, never an empty or partly written file.
C21_ReadersSeeWholeSnapshots ==
    \A r \in Readers :
        observed[r] \in {NoStats, stats_before, Snapshot(motion_count_today)}

====
